---- MODULE Spec2Model ----
(***************************************************************************)
(* A model of gauchian/caller/phasing_gba.py: class PhasingGba, the        *)
(* GBA-specific haplotype assembly and carrier classification.             *)
(*                                                                         *)
(* A haplotype is a Python string over the symbols 1, 2 and x.  It is      *)
(* modelled as a sequence of one-character strings; Python's 0-based       *)
(* index i is position i + 1 of the sequence.                              *)
(***************************************************************************)
EXTENDS Integers, Sequences, FiniteSets, TLC

\* ------------------------------------------------------------------ bounds

\* Largest number of assess_hap calls modelled for one sample.
MaxCalls == 2
\* Largest number of assembled haplotypes in full_haplotypes.
MaxFullHaps == 5
\* Largest number of haplotypes that are keys of var_index_in_haps.
MaxVarHaps == 2

\* --------------------------------------------------- Python string helpers

Symbols == {"1", "2", "x"}

\* The length of every haplotype string of the region (the trusted patterns
\* of __init__ are all ten symbols long).
HapLen == 10

\* hap[i], with Python's 0-based index.
At(hap, i) == hap[i + 1]

\* sub occurs in s at 0-based offset i.
OccursAt(s, sub, i) ==
    /\ i >= 0
    /\ i + Len(sub) <= Len(s)
    /\ \A k \in 1..Len(sub) : s[i + k] = sub[k]

\* Python's  sub in s.
Contains(s, sub) == \E i \in 0..Len(s) : OccursAt(s, sub, i)

\* Python's  s.count(sub): non-overlapping occurrences, scanned left to right.
RECURSIVE CountFrom(_, _, _)
CountFrom(s, sub, i) ==
    IF i + Len(sub) > Len(s) THEN 0
    ELSE IF OccursAt(s, sub, i) THEN 1 + CountFrom(s, sub, i + Len(sub))
    ELSE CountFrom(s, sub, i + 1)

Count(s, sub) == CountFrom(s, sub, 0)

\* Python's  s.index(sub): the lowest offset at which sub occurs.
Index(s, sub) == CHOOSE i \in 0..Len(s) :
                    /\ OccursAt(s, sub, i)
                    /\ \A j \in 0..(i - 1) : ~OccursAt(s, sub, j)

\* Python's  list.index(x) for a list without repeats.
ListIndex(list, x) == (CHOOSE k \in 1..Len(list) : list[k] = x) - 1

InList(list, x) == \E k \in 1..Len(list) : list[k] = x

\* ------------------------------------------------ configuration (__init__)

variant_sites == <<2, 3, 6, 7>>

Hap_1111112111 == <<"1", "1", "1", "1", "1", "1", "2", "1", "1", "1">>
Hap_1121111111 == <<"1", "1", "2", "1", "1", "1", "1", "1", "1", "1">>
Hap_1112111111 == <<"1", "1", "1", "2", "1", "1", "1", "1", "1", "1">>
Hap_1111111221 == <<"1", "1", "1", "1", "1", "1", "1", "2", "2", "1">>

trusted_hap_threshold ==
    {Hap_1111112111, Hap_1121111111, Hap_1112111111, Hap_1111111221}

trusted_hap_switch_point ==
    {Hap_1111112111, Hap_1121111111, Hap_1112111111, Hap_1111111221}

variant_names == <<"A495P", "L483P", "D448H", "c.1263del">>

\* Sites used to calculate depth/read counts, per variant site.
flanking_site == [i \in {2, 3, 6, 7} |->
                    IF i \in {2, 3} THEN <<(<<2, 3>>)>> ELSE <<(<<6, 7>>)>>]

\* ------------------------------------------------------- get_variants_gba

\* The loop of get_variants_gba: the names of the variant sites at which
\* hap holds '2', in ascending index order, for indices i .. len(hap) - 1.
RECURSIVE VariantsFrom(_, _)
VariantsFrom(hap, i) ==
    IF i >= Len(hap) THEN <<>>
    ELSE IF At(hap, i) = "2" /\ InList(variant_sites, i)
         THEN <<variant_names[ListIndex(variant_sites, i) + 1]>>
                  \o VariantsFrom(hap, i + 1)
         ELSE VariantsFrom(hap, i + 1)

\* get_variants_gba without the four-site compound name.
get_variants_gba_NoFour(hap) ==
    LET variants == VariantsFrom(hap, 0) IN
    IF variants = <<"A495P", "L483P">> THEN <<"RecNciI">>
    ELSE IF variants = <<"A495P", "L483P", "D448H">> THEN <<"RecTL">>
    ELSE variants

\* get_variants_gba that takes any list starting with the two names of
\* RecNciI as the three-site compound: the comparisons run on a prefix.
get_variants_gba_Prefix(hap) ==
    LET variants == VariantsFrom(hap, 0) IN
    IF variants = <<"A495P", "L483P", "D448H", "c.1263del">>
    THEN <<"c.1263del+RecTL">>
    ELSE IF Len(variants) >= 2 /\ SubSeq(variants, 1, 2) = <<"A495P", "L483P">>
         THEN <<"RecTL">>
    ELSE variants

\* get_variants_gba without the three-site compound name.
get_variants_gba_NoRecTL(hap) ==
    LET variants == VariantsFrom(hap, 0) IN
    IF variants = <<"A495P", "L483P">> THEN <<"RecNciI">>
    ELSE IF variants = <<"A495P", "L483P", "D448H", "c.1263del">>
         THEN <<"c.1263del+RecTL">>
    ELSE variants

get_variants_gba(hap) ==
    LET variants == VariantsFrom(hap, 0) IN
    IF variants = <<"A495P", "L483P">> THEN <<"RecNciI">>
    ELSE IF variants = <<"A495P", "L483P", "D448H">> THEN <<"RecTL">>
    ELSE IF variants = <<"A495P", "L483P", "D448H", "c.1263del">>
         THEN <<"c.1263del+RecTL">>
    ELSE variants


\* ------------------------------------------------------------- the sample

\* Haplotypes the model assembles for a sample, besides the trusted ones.
Hap_1111122111 == <<"1", "1", "1", "1", "1", "2", "2", "1", "1", "1">>
Hap_2221111111 == <<"2", "2", "2", "1", "1", "1", "1", "1", "1", "1">>
Hap_x221111111 == <<"x", "2", "2", "1", "1", "1", "1", "1", "1", "1">>
Hap_1111111222 == <<"1", "1", "1", "1", "1", "1", "1", "2", "2", "2">>

HapPool == {Hap_1111112111, Hap_1111122111, Hap_2221111111,
            Hap_1111111222}

\* A likelihood that is unavailable (Python's None).
None == -1

\* The standard and the relaxed copy-number likelihood thresholds, on the
\* scale of LikelihoodLevels.
CN_likelihood_threshold == 2
CN_likelihood_threshold_loose == 1

\* One likelihood at or below the loose threshold, one between the two
\* thresholds, one above the standard threshold; or none.
LikelihoodLevels == {None, 1, 2, 3}

VARIABLES
    total_cn,             \* self.total_cn
    is_carrier,           \* self.is_carrier
    deletion_bp_in_gene,  \* self.deletion_bp_in_gene
    variants_details,     \* self.variants_details, a list of records
    full_haplotypes,      \* the sample's assembled haplotypes (a list)
    var_index_in_haps,    \* haplotype -> its variant-site indices (a dict)
    depth,                \* the sample's depth data: block key -> likelihood
    calls,                \* the collaborator calls and flag assignments of
                          \* the last operation, in order
    raised,               \* the last assess_hap call ended in an exception
    checked_haps,         \* check_deletion_bp_in_gene: the last argument
    hap_in,               \* get_variants_gba: the argument of the last call
    variants_out,         \* get_variants_gba: the list it returned
    haplotype_per_read,   \* self.haplotype_per_read: fragment -> read count
    haplotypes_to_extend, \* assemble_haplotypes: the candidates
    n,                    \* assemble_haplotypes: the round counter
    hap_5p,               \* assemble_haplotypes: result of the left pass
    hap_3p,               \* assemble_haplotypes: result of the right pass
    full_hap,             \* assemble_haplotypes: the joined haplotypes
    prim_calls,           \* assemble_haplotypes: the primitive calls so far
    pc                    \* assemble_haplotypes: the statement to run next

\* The state of assemble_haplotypes.
asm_vars == <<haplotype_per_read, haplotypes_to_extend, n, hap_5p, hap_3p,
              full_hap, prim_calls, pc>>

\* The state of the classifier.
obj_vars == <<total_cn, is_carrier, deletion_bp_in_gene, variants_details,
              full_haplotypes, var_index_in_haps, depth, calls, raised,
              checked_haps, hap_in, variants_out>>

vars == <<obj_vars, asm_vars>>

\* ------------------------------------------- collaborators (base Phasing)

\* The variant-site indices at which a haplotype holds '2': the value the
\* caller stores for it in var_index_in_haps.
RECURSIVE VarIndicesFrom(_, _)
VarIndicesFrom(hap, k) ==
    IF k > Len(variant_sites) THEN <<>>
    ELSE IF At(hap, variant_sites[k]) = "2"
         THEN <<variant_sites[k]>> \o VarIndicesFrom(hap, k + 1)
         ELSE VarIndicesFrom(hap, k + 1)

VarIndices(hap) == VarIndicesFrom(hap, 1)

\* A depth block: the summary of the reads over a pair of sites for the
\* allele at allele_index, with its copy-number likelihood.
get_depth_for_block(sites, allele_index) ==
    [sites |-> sites, allele_index |-> allele_index,
     likelihood |-> depth[<<sites[1], allele_index>>]]

\* The depth blocks of the flanking sites of the given variant sites.
RECURSIVE FlankBlocks(_, _)
FlankBlocks(indices, k) ==
    IF k > Len(indices) THEN <<>>
    ELSE LET i == indices[k]
             g == flanking_site[i][1]
         IN  <<get_depth_for_block(g, IF g[1] = i THEN 1 ELSE 0)>>
                 \o FlankBlocks(indices, k + 1)

\* found is true when the likelihood of a block exceeds cn_threshold.
get_depth_for_blocks(indices, cn_threshold) ==
    LET blocks == FlankBlocks(indices, 1) IN
    [found |-> \E k \in 1..Len(blocks) :
                   /\ blocks[k].likelihood # None
                   /\ blocks[k].likelihood > cn_threshold,
     blocks |-> blocks]

\* fully_assembled: no haplotype of the assembled set holds an 'x'.
assess_assembled_haps(haps) ==
    [fully_assembled |-> \A k \in 1..Len(haps) : ~Contains(haps[k], <<"x">>),
     var_sites_haps |-> [k \in 1..Len(haps) |->
                            [j \in 1..Len(variant_sites) |->
                                At(haps[k], variant_sites[j])]]]

\* The inference from the alleles of the assembled haplotypes at the variant
\* sites; answer is what it returns for the sample.
carrier_from_assembled_haps(var_sites_haps, answer) == answer

var_call_per_haplotype(hap, variants, blocks, carrier) ==
    [hap |-> hap, variants |-> variants, depth_blocks |-> blocks,
     is_carrier |-> carrier]


\* ------------------------------------------------ check_deletion_bp_in_gene

\* Below this total copy number a deletion is looked for.
DeletionCn == 4

\* The condition with the two switching directions exchanged.
DeletionBpHap_Swapped(hap) ==
    /\ total_cn < DeletionCn
    /\ Count(hap, <<"1", "2">>) = 1
    /\ ~Contains(hap, <<"2", "1">>)
    /\ ~Contains(hap, <<"x">>)

\* The condition without the test for unresolved positions.
DeletionBpHap_NoX(hap) ==
    /\ total_cn < DeletionCn
    /\ Count(hap, <<"2", "1">>) = 1
    /\ ~Contains(hap, <<"1", "2">>)

\* The condition under which one haplotype sets the flag.
DeletionBpHap(hap) ==
    /\ total_cn < DeletionCn
    /\ Count(hap, <<"2", "1">>) = 1
    /\ ~Contains(hap, <<"1", "2">>)
    /\ ~Contains(hap, <<"x">>)

\* The value of deletion_bp_in_gene after the loop over the haplotypes.
check_deletion_bp_in_gene(haps) ==
    IF \E hap \in haps : DeletionBpHap(hap) THEN TRUE
    ELSE deletion_bp_in_gene

\* --------------------------------------------------------------- assess_hap

\* The assembled set may hold at most this many haplotypes for the loose
\* threshold to be used.
TrustedMaxHaps == 4

Event(op, sites, param, carrier) ==
    [op |-> op, sites |-> sites, param |-> param, carrier |-> carrier]

\* The threshold selection that never relaxes the threshold.
CnThreshold_Standard(hap, haps) == CN_likelihood_threshold

\* The threshold selection with  <  for  <= .
CnThreshold_Strict(hap, haps) ==
    IF hap \in trusted_hap_threshold /\ Len(haps) < TrustedMaxHaps
    THEN CN_likelihood_threshold_loose
    ELSE CN_likelihood_threshold

\* The cn_threshold that scenario 1 passes to get_depth_for_blocks.
CnThreshold(hap, haps) ==
    IF hap \in trusted_hap_threshold /\ Len(haps) <= TrustedMaxHaps
    THEN CN_likelihood_threshold_loose
    ELSE CN_likelihood_threshold

\* Scenario 1 that assigns the flag from the answer of this haplotype,
\* whatever it was before.
Scenario1_Assign(hap, var_index, haps, st) ==
    LET good_var_indices == var_index[hap]
        cn_threshold == CnThreshold(hap, haps)
        r == get_depth_for_blocks(good_var_indices, cn_threshold)
        called == Append(st.calls,
                         Event("get_depth_for_blocks", good_var_indices,
                               cn_threshold, st.is_carrier))
    IN  [st EXCEPT !.found_variant_in_short_hap = r.found,
                   !.block_result = r.blocks,
                   !.is_carrier = r.found,
                   !.calls = Append(called,
                                    Event("is_carrier", <<>>, 1, r.found))]

\* Scenario 1: depth at the flanking sites of the haplotype's variant sites.
\* st is the frame of the call: the flag, the locals and the call log.
Scenario1(hap, var_index, haps, st) ==
    LET good_var_indices == var_index[hap]
        cn_threshold == CnThreshold(hap, haps)
        r == get_depth_for_blocks(good_var_indices, cn_threshold)
        called == Append(st.calls,
                         Event("get_depth_for_blocks", good_var_indices,
                               cn_threshold, st.is_carrier))
    IN  [st EXCEPT !.found_variant_in_short_hap = r.found,
                   !.block_result = r.blocks,
                   !.is_carrier = IF r.found THEN TRUE ELSE @,
                   !.calls = IF r.found
                             THEN Append(called,
                                         Event("is_carrier", <<>>, 1, TRUE))
                             ELSE called]

\* The guard of scenario 2 without the test of fully_assembled.
Scenario2Applies_NoAssembled(var_index, fully_assembled) ==
    Cardinality(DOMAIN var_index) = 1

\* The condition of the elif that guards scenario 2.
Scenario2Applies(var_index, fully_assembled) ==
    /\ Cardinality(DOMAIN var_index) = 1
    /\ fully_assembled = TRUE

\* Scenario 2: the assembled haplotypes alone, without depth.
Scenario2(var_index, haps, answer, st) ==
    LET a == assess_assembled_haps(haps) IN
    IF ~st.found_variant_in_short_hap
       /\ Scenario2Applies(var_index, a.fully_assembled)
    THEN LET carrier_from_haps ==
                 carrier_from_assembled_haps(a.var_sites_haps, answer)
             called == Append(st.calls,
                              Event("carrier_from_assembled_haps", <<>>, 0,
                                    st.is_carrier))
         IN  [st EXCEPT !.is_carrier = IF carrier_from_haps = TRUE
                                       THEN TRUE ELSE @,
                        !.calls = IF carrier_from_haps = TRUE
                                  THEN Append(called,
                                              Event("is_carrier", <<>>, 2,
                                                    TRUE))
                                  ELSE called]
    ELSE st

\* The condition of scenario 3 without the tests for a reverse transition.
Scenario3Applies_AnySwitch(hap) ==
    \/ hap \in trusted_hap_switch_point
    \/ Count(hap, <<"1", "2">>) = 1
    \/ Count(hap, <<"2", "1">>) = 1

\* The condition on the haplotype under which scenario 3 checks its
\* switching points.
Scenario3Applies(hap) ==
    \/ hap \in trusted_hap_switch_point
    \/ (Count(hap, <<"1", "2">>) = 1 /\ ~Contains(hap, <<"2", "1">>))
    \/ (Count(hap, <<"2", "1">>) = 1 /\ ~Contains(hap, <<"1", "2">>))

\* Python's  a > b  for a likelihood a and a number b: a TypeError when a
\* is None.
PyGreater(a, b) ==
    IF a = None THEN "TypeError" ELSE IF a > b THEN "True" ELSE "False"

\* The test of a switch block without the test for None.
SwitchTest_NoGuard(switch_block) ==
    PyGreater(switch_block.likelihood, CN_likelihood_threshold)

\* The test of a switch block against the loose threshold.
SwitchTest_Loose(switch_block) ==
    IF switch_block.likelihood # None
    THEN PyGreater(switch_block.likelihood, CN_likelihood_threshold_loose)
    ELSE "False"

\* The test of a switch block:  likelihood is not None and likelihood >
\* CN_likelihood_threshold;  the comparison is evaluated only when the
\* first operand holds.
SwitchTest(switch_block) ==
    IF switch_block.likelihood # None
    THEN PyGreater(switch_block.likelihood, CN_likelihood_threshold)
    ELSE "False"

\* The likelihood of a switch block exceeds the standard threshold.
SwitchExceeds(switch_block) == SwitchTest(switch_block) = "True"

\* One round of the loop over the switching haplotypes "12" and "21".
SwitchStep(hap, switching_hap, st) ==
    IF Contains(hap, switching_hap) /\ ~st.raised
    THEN LET switch_point == Index(hap, switching_hap)
             allele_index == Index(switching_hap, <<"1">>)
             switch_block ==
                 get_depth_for_block(<<switch_point, switch_point + 1>>,
                                     allele_index)
             called == Append(st.calls,
                              Event("get_depth_for_block",
                                    <<switch_point, switch_point + 1>>,
                                    allele_index, st.is_carrier))
         IN  [st EXCEPT !.block_result =
                            IF InList(@, switch_block) THEN @
                            ELSE Append(@, switch_block),
                        !.raised = SwitchTest(switch_block) = "TypeError",
                        !.is_carrier = IF SwitchExceeds(switch_block)
                                       THEN TRUE ELSE @,
                        !.calls = IF SwitchExceeds(switch_block)
                                  THEN Append(called,
                                              Event("is_carrier", <<>>, 3,
                                                    TRUE))
                                  ELSE called]
    ELSE st

\* Scenario 3 without the test of the flag.
Scenario3_NoFlagCheck(hap, st) ==
    IF Scenario3Applies(hap)
    THEN SwitchStep(hap, <<"2", "1">>, SwitchStep(hap, <<"1", "2">>, st))
    ELSE st

\* Scenario 3: the switching points, when the flag is not set so far.
Scenario3(hap, st) ==
    IF st.is_carrier # TRUE /\ Scenario3Applies(hap)
    THEN SwitchStep(hap, <<"2", "1">>, SwitchStep(hap, <<"1", "2">>, st))
    ELSE st

\* The record that carries the answer of scenario 1 for this haplotype
\* instead of the flag of the sample.
VarPerHap_Found(hap, st) ==
    var_call_per_haplotype(hap, get_variants_gba(hap), st.block_result,
                           st.found_variant_in_short_hap)

\* The record of the haplotype, built after the scenarios.
VarPerHap(hap, st) ==
    var_call_per_haplotype(hap, get_variants_gba(hap), st.block_result,
                           IF st.is_carrier = TRUE THEN TRUE
                           ELSE st.found_variant_in_short_hap)

\* The frame of assess_hap when it returns; answer is what
\* carrier_from_assembled_haps returns if scenario 2 calls it.
assess_hap(hap, var_index, haps, answer) ==
    LET st0 == [is_carrier |-> is_carrier,
                found_variant_in_short_hap |-> FALSE,
                block_result |-> <<>>,
                calls |-> <<>>,
                raised |-> FALSE]
    IN  Scenario3(hap, Scenario2(var_index, haps, answer,
                                 Scenario1(hap, var_index, haps, st0)))


\* ------------------------------------------------------------------ actions

\* assess_hap that assigns the list of records instead of appending to it.
AssessHap_Replace(hap) ==
    /\ Len(variants_details) < MaxCalls
    /\ \E answer \in BOOLEAN :
       \E st \in {assess_hap(hap, var_index_in_haps, full_haplotypes,
                              answer)} :
       /\ is_carrier' = st.is_carrier
       /\ variants_details' = IF st.raised THEN variants_details
                              ELSE <<VarPerHap(hap, st)>>
       /\ calls' = st.calls
       /\ raised' = st.raised
       /\ hap_in' = IF st.raised THEN hap_in ELSE hap
       /\ variants_out' = IF st.raised THEN variants_out
                          ELSE get_variants_gba(hap)
    /\ deletion_bp_in_gene' = deletion_bp_in_gene
    /\ UNCHANGED <<total_cn, full_haplotypes, var_index_in_haps, depth,
                   checked_haps>>
    /\ UNCHANGED asm_vars

\* assess_hap that also resets the deletion flag for the haplotype.
AssessHap_ResetsBp(hap) ==
    /\ Len(variants_details) < MaxCalls
    /\ \E answer \in BOOLEAN :
       \E st \in {assess_hap(hap, var_index_in_haps, full_haplotypes,
                              answer)} :
       /\ is_carrier' = st.is_carrier
       /\ variants_details' = IF st.raised THEN variants_details
                              ELSE Append(variants_details,
                                          VarPerHap(hap, st))
       /\ calls' = st.calls
       /\ raised' = st.raised
       /\ hap_in' = IF st.raised THEN hap_in ELSE hap
       /\ variants_out' = IF st.raised THEN variants_out
                          ELSE get_variants_gba(hap)
    /\ deletion_bp_in_gene' = FALSE
    /\ UNCHANGED <<total_cn, full_haplotypes, var_index_in_haps, depth,
                   checked_haps>>
    /\ UNCHANGED asm_vars

\* One call  assess_hap(hap, var_index_in_haps, full_haplotypes).  The
\* record is built by a call of get_variants_gba(hap).
AssessHap(hap) ==
    /\ Len(variants_details) < MaxCalls
    /\ \E answer \in BOOLEAN :
       \E st \in {assess_hap(hap, var_index_in_haps, full_haplotypes,
                              answer)} :
       /\ is_carrier' = st.is_carrier
       /\ variants_details' = IF st.raised THEN variants_details
                              ELSE Append(variants_details,
                                          VarPerHap(hap, st))
       /\ calls' = st.calls
       /\ raised' = st.raised
       /\ hap_in' = IF st.raised THEN hap_in ELSE hap
       /\ variants_out' = IF st.raised THEN variants_out
                          ELSE get_variants_gba(hap)
    /\ deletion_bp_in_gene' = deletion_bp_in_gene
    /\ UNCHANGED <<total_cn, full_haplotypes, var_index_in_haps, depth,
                   checked_haps>>
    /\ UNCHANGED asm_vars

\* One call  check_deletion_bp_in_gene(haps).
CheckDeletion(haps) ==
    /\ deletion_bp_in_gene' = check_deletion_bp_in_gene(haps)
    /\ checked_haps' = haps
    /\ calls' = <<>>
    /\ UNCHANGED <<total_cn, is_carrier, variants_details, full_haplotypes,
                   var_index_in_haps, depth, raised, hap_in, variants_out>>
    /\ UNCHANGED asm_vars

\* The call the caller makes, on the keys of var_index_in_haps.
CheckDeletionBp == CheckDeletion(DOMAIN var_index_in_haps)

\* A call on another haplotype set.
OtherHaps == {Hap_2221111111, Hap_x221111111}

CheckDeletionBpOther == CheckDeletion(OtherHaps)

\* One call  get_variants_gba(hap_in).
GetVariantsGba ==
    /\ calls = <<>>
    /\ variants_out' = get_variants_gba(hap_in)
    /\ calls' = <<Event("get_variants_gba", <<>>, 0, is_carrier)>>
    /\ UNCHANGED <<total_cn, is_carrier, deletion_bp_in_gene,
                   variants_details, full_haplotypes, var_index_in_haps,
                   depth, raised, checked_haps, hap_in>>
    /\ UNCHANGED asm_vars

\* ---------------------------------------------- assemble_haplotypes
\* The primitives of depth_calling.haplotype, on a bag of fragments: a
\* function from the fragment string to the number of reads that show it.

\* The number of reads an extension needs.
MinSupport == 2

Xs(k) == [i \in 1..k |-> "x"]

RECURSIVE SumReads(_, _)
SumReads(reads, S) ==
    IF S = {} THEN 0
    ELSE LET f == CHOOSE g \in S : TRUE
         IN  reads[f] + SumReads(reads, S \ {f})

PatternAt(hap, sites) == [k \in 1..Len(sites) |-> At(hap, sites[k])]

\* extract_hap: the patterns the fragments show at the sites, each with the
\* number of reads that show it; a fragment with 'x' at a site shows none.
extract_hap(reads, sites) ==
    LET covering == {f \in DOMAIN reads :
                        /\ reads[f] > 0
                        /\ \A k \in 1..Len(sites) : At(f, sites[k]) # "x"}
    IN  [a \in {PatternAt(f, sites) : f \in covering} |->
            SumReads(reads, {f \in covering : PatternAt(f, sites) = a})]

\* filter_hap: the patterns with at least MinSupport reads.
filter_hap(hap_count) ==
    [a \in {b \in DOMAIN hap_count : hap_count[b] >= MinSupport} |->
        hap_count[a]]

\* A fragment matches a candidate if they agree wherever both are resolved,
\* and both are resolved somewhere.
Matches(f, hap) ==
    /\ \A i \in 1..HapLen : f[i] = "x" \/ hap[i] = "x" \/ f[i] = hap[i]
    /\ \E i \in 1..HapLen : f[i] # "x" /\ hap[i] # "x"

\* group_haps: candidate -> the bag of the fragments that match it.
group_haps(reads, haps) ==
    [hap \in haps |->
        [f \in DOMAIN reads |-> IF Matches(f, hap) THEN reads[f] ELSE 0]]

FirstSite(hap) ==
    CHOOSE i \in 0..(HapLen - 1) :
        /\ At(hap, i) # "x"
        /\ \A j \in 0..(i - 1) : At(hap, j) = "x"

LastSite(hap) ==
    CHOOSE i \in 0..(HapLen - 1) :
        /\ At(hap, i) # "x"
        /\ \A j \in (i + 1)..(HapLen - 1) : At(hap, j) = "x"

SupportAt(group, site, a) ==
    SumReads(group, {f \in DOMAIN group : At(f, site) = a})

\* One candidate extended by one site: dropped with fewer than MinSupport
\* matching reads, kept as it is when the site is off the string or no
\* symbol has MinSupport reads there, else given the best-supported symbol.
ExtendAt(hap, group, site) ==
    IF SumReads(group, DOMAIN group) < MinSupport THEN {}
    ELSE IF site \notin 0..(HapLen - 1) THEN {hap}
    ELSE LET s1 == SupportAt(group, site, "1")
             s2 == SupportAt(group, site, "2")
             best == IF s1 >= s2 THEN s1 ELSE s2
         IN  IF best < MinSupport THEN {hap}
             ELSE {[hap EXCEPT ![site + 1] = a] :
                      a \in {b \in {"1", "2"} :
                                SupportAt(group, site, b) = best}}

\* extend_hap_5p: every candidate extended at the site left of its first
\* resolved site.
extend_hap_5p(groups) ==
    UNION {ExtendAt(hap, groups[hap], FirstSite(hap) - 1) :
              hap \in DOMAIN groups}

\* extend_hap_3p: every candidate extended at the site right of its last
\* resolved site.
extend_hap_3p(groups) ==
    UNION {ExtendAt(hap, groups[hap], LastSite(hap) + 1) :
              hap \in DOMAIN groups}

\* join_subblocks: the merges of a left and a right partial haplotype that
\* agree wherever both are resolved and are both resolved at a site of
\* left..right.  (The support count it also returns is not used.)
join_subblocks(reads, haps_5p, haps_3p, left, right) ==
    {[i \in 1..HapLen |-> IF a[i] # "x" THEN a[i] ELSE b[i]] :
        <<a, b>> \in {ab \in haps_5p \X haps_3p :
                        /\ \A i \in 1..HapLen :
                               \/ ab[1][i] = "x"
                               \/ ab[2][i] = "x"
                               \/ ab[1][i] = ab[2][i]
                        /\ \E i \in left..right :
                               /\ At(ab[1], i) # "x"
                               /\ At(ab[2], i) # "x"}}

\* The loop of each pass runs at most RoundCap times.
RoundCap == 4

\* The seed windows of the two passes and the bounds of the join.
left_window == <<2, 3>>
right_window == <<6, 7>>
join_left == 2
join_right == 8

\* "x" * 2 + a + "x" * 6
LeftSeed(a) == Xs(2) \o a \o Xs(6)

\* A right seed padded with 'x' on both sides.
RightSeed_Padded(a) == Xs(6) \o a \o Xs(2)

\* "x" * 6 + a + a[-1] + "x"
RightSeed(a) == Xs(6) \o a \o <<a[Len(a)]>> \o Xs(1)

\* One entry of prim_calls: the primitive, the candidates it was given,
\* the candidates (or patterns) it returned, the pass, and whether the call
\* was made in the loop of the pass.
PrimCall(op, given, returned, pass, in_loop) ==
    [op |-> op, given |-> given, returned |-> returned, pass |-> pass,
     in_loop |-> in_loop]

\* hap_count = extract_hap(...); hap_count = filter_hap(hap_count);
\* haplotypes_to_extend = [seed for a in hap_count]
Seeds(window, pass, next_pc) ==
    LET extracted == extract_hap(haplotype_per_read, window)
        hap_count == filter_hap(extracted)
    IN  /\ haplotypes_to_extend' =
               {IF pass = "left" THEN LeftSeed(a) ELSE RightSeed(a) :
                   a \in DOMAIN hap_count}
        /\ prim_calls' = prim_calls \o
               <<PrimCall("extract_hap", {}, DOMAIN extracted, pass, FALSE),
                 PrimCall("filter_hap", DOMAIN extracted, DOMAIN hap_count,
                          pass, FALSE)>>
        /\ pc' = next_pc

\* matching_haplotype_groups = group_haps(self.haplotype_per_read,
\*                                        haplotypes_to_extend)
\* haplotypes_to_extend = extend_hap_Xp(matching_haplotype_groups)
GroupExtend(op, pass, in_loop) ==
    LET matching_haplotype_groups ==
            group_haps(haplotype_per_read, haplotypes_to_extend)
        extended == IF op = "extend_hap_5p"
                    THEN extend_hap_5p(matching_haplotype_groups)
                    ELSE extend_hap_3p(matching_haplotype_groups)
    IN  /\ haplotypes_to_extend' = extended
        /\ prim_calls' = prim_calls \o
               <<PrimCall("group_haps", haplotypes_to_extend,
                          DOMAIN matching_haplotype_groups, pass, in_loop),
                 PrimCall(op, DOMAIN matching_haplotype_groups, extended,
                          pass, in_loop)>>

\* One evaluation of  while n < 4  and, when it holds, of the loop body.
Round(op, pass, loop_pc, end_pc) ==
    /\ pc = loop_pc
    /\ IF n < RoundCap
       THEN /\ n' = n + 1
            /\ IF haplotypes_to_extend # {}
               THEN /\ GroupExtend(op, pass, TRUE)
                    /\ pc' = loop_pc
               ELSE /\ pc' = end_pc
                    /\ UNCHANGED <<haplotypes_to_extend, prim_calls>>
       ELSE /\ pc' = end_pc
            /\ UNCHANGED <<n, haplotypes_to_extend, prim_calls>>

\* The left pass.
LeftSeeds ==
    /\ pc = "left_seeds"
    /\ Seeds(left_window, "left", "left_5p")
    /\ UNCHANGED <<haplotype_per_read, n, hap_5p, hap_3p, full_hap>>
    /\ UNCHANGED obj_vars

LeftExtend5p ==
    /\ pc = "left_5p"
    /\ GroupExtend("extend_hap_5p", "left", FALSE)
    /\ pc' = "left_5p_again"
    /\ UNCHANGED <<haplotype_per_read, n, hap_5p, hap_3p, full_hap>>
    /\ UNCHANGED obj_vars

LeftExtend5pAgain ==
    /\ pc = "left_5p_again"
    /\ GroupExtend("extend_hap_5p", "left", FALSE)
    /\ n' = 0
    /\ pc' = "left_loop"
    /\ UNCHANGED <<haplotype_per_read, hap_5p, hap_3p, full_hap>>
    /\ UNCHANGED obj_vars

\* The left loop without the test for an empty candidate list.
LeftRound_NoBreak ==
    /\ pc = "left_loop"
    /\ IF n < RoundCap
       THEN /\ n' = n + 1
            /\ GroupExtend("extend_hap_3p", "left", TRUE)
            /\ pc' = "left_loop"
       ELSE /\ pc' = "left_end"
            /\ UNCHANGED <<n, haplotypes_to_extend, prim_calls>>
    /\ UNCHANGED <<haplotype_per_read, hap_5p, hap_3p, full_hap>>
    /\ UNCHANGED obj_vars

\* The left loop with one round less.
LeftRound_ThreeRounds ==
    /\ pc = "left_loop"
    /\ IF n < RoundCap - 1
       THEN /\ n' = n + 1
            /\ IF haplotypes_to_extend # {}
               THEN /\ GroupExtend("extend_hap_3p", "left",
                                   TRUE)
                    /\ pc' = "left_loop"
               ELSE /\ pc' = "left_end"
                    /\ UNCHANGED <<haplotypes_to_extend, prim_calls>>
       ELSE /\ pc' = "left_end"
            /\ UNCHANGED <<n, haplotypes_to_extend, prim_calls>>
    /\ UNCHANGED <<haplotype_per_read, hap_5p, hap_3p, full_hap>>
    /\ UNCHANGED obj_vars

LeftRound ==
    /\ Round("extend_hap_3p", "left", "left_loop", "left_end")
    /\ UNCHANGED <<haplotype_per_read, hap_5p, hap_3p, full_hap>>
    /\ UNCHANGED obj_vars

LeftEnd ==
    /\ pc = "left_end"
    /\ hap_5p' = haplotypes_to_extend
    /\ pc' = "right_seeds"
    /\ UNCHANGED <<haplotype_per_read, haplotypes_to_extend, n, hap_3p,
                   full_hap, prim_calls>>
    /\ UNCHANGED obj_vars

\* The right pass.
RightSeeds ==
    /\ pc = "right_seeds"
    /\ Seeds(right_window, "right", "right_3p")
    /\ UNCHANGED <<haplotype_per_read, n, hap_5p, hap_3p, full_hap>>
    /\ UNCHANGED obj_vars

RightExtend3p ==
    /\ pc = "right_3p"
    /\ GroupExtend("extend_hap_3p", "right", FALSE)
    /\ n' = 0
    /\ pc' = "right_loop"
    /\ UNCHANGED <<haplotype_per_read, hap_5p, hap_3p, full_hap>>
    /\ UNCHANGED obj_vars

RightRound ==
    /\ Round("extend_hap_5p", "right", "right_loop", "right_end")
    /\ UNCHANGED <<haplotype_per_read, hap_5p, hap_3p, full_hap>>
    /\ UNCHANGED obj_vars

RightEnd ==
    /\ pc = "right_end"
    /\ hap_3p' = haplotypes_to_extend
    /\ pc' = "join"
    /\ UNCHANGED <<haplotype_per_read, haplotypes_to_extend, n, hap_5p,
                   full_hap, prim_calls>>
    /\ UNCHANGED obj_vars

\* A join that is skipped when one of the passes gave nothing.
Join_SkipEmpty ==
    /\ pc = "join"
    /\ full_hap' = IF hap_5p = {} \/ hap_3p = {} THEN {}
                   ELSE join_subblocks(haplotype_per_read, hap_5p, hap_3p,
                                       join_left, join_right)
    /\ prim_calls' = IF hap_5p = {} \/ hap_3p = {} THEN prim_calls
                     ELSE Append(prim_calls,
                                 PrimCall("join_subblocks", hap_5p, hap_3p,
                                          "join", FALSE))
    /\ pc' = "done"
    /\ UNCHANGED <<haplotype_per_read, haplotypes_to_extend, n, hap_5p,
                   hap_3p>>
    /\ UNCHANGED obj_vars

\* full_hap, dcount = join_subblocks(...); return
Join ==
    /\ pc = "join"
    /\ full_hap' = join_subblocks(haplotype_per_read, hap_5p, hap_3p,
                                  join_left, join_right)
    /\ prim_calls' = Append(prim_calls,
                            PrimCall("join_subblocks", hap_5p, hap_3p,
                                     "join", FALSE))
    /\ pc' = "done"
    /\ UNCHANGED <<haplotype_per_read, haplotypes_to_extend, n, hap_5p,
                   hap_3p>>
    /\ UNCHANGED obj_vars


\* ------------------------------------------------------------ initial states

\* Every haplotype string of the region.
AllHaps == [1..HapLen -> Symbols]

\* The keys of the depth data: the first site of a pair of adjacent sites
\* and the index of the allele in the pair.
DepthKeys == (0..(HapLen - 2)) \X {0, 1}

\* The keys of the depth data at the flanking sites and at the switching
\* points of a haplotype.
RECURSIVE FlankKeys(_, _)
FlankKeys(indices, k) ==
    IF k > Len(indices) THEN {}
    ELSE LET i == indices[k]
             g == flanking_site[i][1]
         IN  {<<g[1], IF g[1] = i THEN 1 ELSE 0>>}
                 \cup FlankKeys(indices, k + 1)

SwitchKeys(hap) ==
    {<<Index(hap, sw), Index(sw, <<"1">>)>> :
        sw \in {s \in {<<"1", "2">>, <<"2", "1">>} : Contains(hap, s)}}

KeysOf(haps) ==
    UNION {FlankKeys(VarIndices(h), 1) \cup SwitchKeys(h) : h \in haps}

\* An assembled haplotype with every site resolved, and one with an 'x'.
ResolvedHap == Hap_1111112111
UnresolvedHap == Hap_x221111111

\* The assembled sets: 1, TrustedMaxHaps or MaxFullHaps haplotypes, all
\* resolved or the first one unresolved.
FullHapChoices ==
    {[k \in 1..len |-> IF k <= u THEN UnresolvedHap ELSE ResolvedHap] :
        len \in {1, TrustedMaxHaps, MaxFullHaps}, u \in {0, 1}}

VarIndexChoices ==
    {[h \in D |-> VarIndices(h)] :
        D \in {S \in SUBSET HapPool :
                  Cardinality(S) >= 1 /\ Cardinality(S) <= MaxVarHaps}}

\* The fragments of the reads: some with every site, some with the sites
\* of one seed window and its neighbours.
Frag_1111111111 == <<"1", "1", "1", "1", "1", "1", "1", "1", "1", "1">>
Frag_1111111211 == <<"1", "1", "1", "1", "1", "1", "1", "2", "1", "1">>
Frag_xxxxx11221 == <<"x", "x", "x", "x", "x", "1", "1", "2", "2", "1">>
Frag_xx12x1xxxx == <<"x", "x", "1", "2", "x", "1", "x", "x", "x", "x">>
Frag_xx11xxxxxx == <<"x", "x", "1", "1", "x", "x", "x", "x", "x", "x">>

FragmentPool ==
    {Frag_1111111111, Hap_1112111111, Frag_1111111211, Frag_xxxxx11221,
     Frag_xx12x1xxxx, Frag_xx11xxxxxx}

\* At most MaxCopies reads show the same fragment.
MaxCopies == 2

NoReads == [f \in FragmentPool |-> 0]

\* assemble_haplotypes has not been called.
InitAssembly ==
    /\ haplotypes_to_extend = {}
    /\ n = 0
    /\ hap_5p = {}
    /\ hap_3p = {}
    /\ full_hap = {}
    /\ prim_calls = <<>>
    /\ pc = "left_seeds"

\* The object after construction, for one sample.
InitObject ==
    /\ InitAssembly
    /\ is_carrier = FALSE
    /\ deletion_bp_in_gene = FALSE
    /\ variants_details = <<>>
    /\ calls = <<>>
    /\ raised = FALSE
    /\ checked_haps = {}
    /\ variants_out = <<>>

Init ==
    /\ InitObject
    /\ total_cn = DeletionCn - 1
    /\ full_haplotypes \in FullHapChoices
    /\ var_index_in_haps \in VarIndexChoices
    /\ \E f \in [KeysOf(DOMAIN var_index_in_haps) -> LikelihoodLevels] :
           depth = [key \in DepthKeys |->
                       IF key \in DOMAIN f THEN f[key] ELSE None]
    /\ hap_in = Hap_1111112111
    /\ haplotype_per_read = NoReads

Next == \E hap \in DOMAIN var_index_in_haps : AssessHap(hap)

Spec == Init /\ [][Next]_vars

\* get_variants_gba on every haplotype string.
InitVariants ==
    /\ InitObject
    /\ total_cn = DeletionCn - 1
    /\ hap_in \in AllHaps
    /\ full_haplotypes = <<hap_in>>
    /\ var_index_in_haps = [h \in {hap_in} |-> VarIndices(h)]
    /\ depth = [key \in DepthKeys |-> None]
    /\ haplotype_per_read = NoReads

NextVariants == GetVariantsGba

SpecVariants == InitVariants /\ [][NextVariants]_vars

\* check_deletion_bp_in_gene on every haplotype string.
InitDeletion ==
    /\ InitObject
    /\ total_cn \in (DeletionCn - 1)..DeletionCn
    /\ hap_in \in AllHaps
    /\ full_haplotypes = <<hap_in>>
    /\ var_index_in_haps = [h \in {hap_in} |-> VarIndices(h)]
    /\ depth = [key \in DepthKeys |-> None]
    /\ haplotype_per_read = NoReads

NextDeletion ==
    \/ CheckDeletionBp
    \/ CheckDeletionBpOther

SpecDeletion == InitDeletion /\ [][NextDeletion]_vars

\* Both operations on one sample, the depth data at one level for all blocks.
InitBoth ==
    /\ InitObject
    /\ total_cn \in (DeletionCn - 1)..DeletionCn
    /\ full_haplotypes \in FullHapChoices
    /\ var_index_in_haps \in VarIndexChoices
    /\ \E level \in LikelihoodLevels :
           depth = [key \in DepthKeys |->
                       IF key \in KeysOf(DOMAIN var_index_in_haps)
                       THEN level ELSE None]
    /\ hap_in = Hap_1111112111
    /\ haplotype_per_read = NoReads

NextBoth ==
    \/ \E hap \in DOMAIN var_index_in_haps : AssessHap(hap)
    \/ CheckDeletionBp
    \/ CheckDeletionBpOther

SpecBoth == InitBoth /\ [][NextBoth]_vars

\* assemble_haplotypes on the fragments of a sample.
InitAssemble ==
    /\ InitObject
    /\ total_cn = DeletionCn - 1
    /\ full_haplotypes = <<ResolvedHap>>
    /\ var_index_in_haps = [h \in {ResolvedHap} |-> VarIndices(h)]
    /\ depth = [key \in DepthKeys |-> None]
    /\ hap_in = Hap_1111112111
    /\ haplotype_per_read \in [FragmentPool -> 0..MaxCopies]

NextAssemble ==
    \/ LeftSeeds
    \/ LeftExtend5p
    \/ LeftExtend5pAgain
    \/ LeftRound
    \/ LeftEnd
    \/ RightSeeds
    \/ RightExtend3p
    \/ RightRound
    \/ RightEnd
    \/ Join

SpecAssemble == InitAssemble /\ [][NextAssemble]_vars


\* ---------------------------------------------------- notions of the claims

\* assess_hap has been called; calls then holds the log of the last call.
Called == variants_details # <<>>

\* The record appended by the last assess_hap call.
LastRec == variants_details[Len(variants_details)]

HasCall(op) == \E k \in 1..Len(calls) : calls[k].op = op

\* The last assess_hap call assigned is_carrier in scenario n.
SetBy(scenario) ==
    \E k \in 1..Len(calls) :
        calls[k].op = "is_carrier" /\ calls[k].param = scenario

\* Symbol a is directly followed by symbol b somewhere in h.
Transitions(h, a, b) == {i \in 1..(Len(h) - 1) : h[i] = a /\ h[i + 1] = b}

Resolved(h) == \A i \in 1..Len(h) : h[i] # "x"

\* The scenario an entry of the call log belongs to.
ScenarioOf(e) ==
    IF e.op = "get_depth_for_blocks" THEN 1
    ELSE IF e.op = "carrier_from_assembled_haps" THEN 2
    ELSE IF e.op = "get_depth_for_block" THEN 3
    ELSE e.param

Hap_1111121111 == <<"1", "1", "1", "1", "1", "2", "1", "1", "1", "1">>
Hap_2222221111 == <<"2", "2", "2", "2", "2", "2", "1", "1", "1", "1">>
Hap_xx22xx22xx == <<"x", "x", "2", "2", "x", "x", "2", "2", "x", "x">>
Hap_2122111111 == <<"2", "1", "2", "2", "1", "1", "1", "1", "1", "1">>

\* ------------------------------------------------------------------- claims

\* C1: once is_carrier is True after an assess_hap call it is True after
\* every later call, and every assignment assess_hap makes to it assigns True.
C1_CarrierMonotone ==
    [][/\ (is_carrier = TRUE => is_carrier' = TRUE)
       /\ \A k \in 1..Len(calls') :
              calls'[k].op = "is_carrier" => calls'[k].carrier = TRUE]_vars

\* C1 witness: the first call set the flag, the second call assigned nothing
\* and the flag is still True.
C1_Witness ==
    /\ Len(variants_details) = 2
    /\ variants_details[1].is_carrier = TRUE
    /\ ~HasCall("is_carrier")
    /\ is_carrier = TRUE

\* C2: for a haplotype with both a "12" and a "21" that is not a trusted
\* switch-point haplotype, assess_hap makes no get_depth_for_block call,
\* adds no block to those of scenario 1 and does not set is_carrier in
\* scenario 3.
C2_Scenario3Gating ==
    Called =>
        LET h == LastRec.hap IN
        (/\ Transitions(h, "1", "2") # {}
         /\ Transitions(h, "2", "1") # {}
         /\ h \notin trusted_hap_switch_point)
        => /\ ~HasCall("get_depth_for_block")
           /\ ~SetBy(3)
           /\ LastRec.depth_blocks = FlankBlocks(var_index_in_haps[h], 1)

\* C2 witness: such a haplotype was assessed on a sample whose depth at the
\* "12" switching point exceeds the standard threshold, and the sample is
\* not a carrier.
C2_Witness ==
    /\ Called
    /\ LastRec.hap = Hap_1111122111
    /\ depth[<<4, 0>>] > CN_likelihood_threshold
    /\ is_carrier = FALSE

\* C3 as stated: with total_cn < 4, a check on a haplotype set that holds
\* "1111121111" sets deletion_bp_in_gene.
C3_Original ==
    (total_cn < 4 /\ Hap_1111121111 \in checked_haps)
    => deletion_bp_in_gene = TRUE

\* C3 amended: with total_cn < 4, a check on a haplotype set that holds a
\* fully resolved haplotype with exactly one "21" and no "12", such as
\* "2222221111", sets deletion_bp_in_gene.
C3_DeletionBpSet ==
    (/\ total_cn < 4
     /\ \E h \in checked_haps :
            /\ Cardinality(Transitions(h, "2", "1")) = 1
            /\ Transitions(h, "1", "2") = {}
            /\ Resolved(h))
    => deletion_bp_in_gene = TRUE

\* C3 witness: "2222221111" alone was checked with total_cn < 4.
C3_Witness ==
    /\ total_cn < 4
    /\ checked_haps = {Hap_2222221111}
    /\ deletion_bp_in_gene = TRUE

\* C4: a check changes deletion_bp_in_gene only to True, and only when
\* total_cn < 4 and a haplotype of its input has exactly one "21", no "12"
\* and no 'x'.
C4_DeletionBpGuard ==
    [][deletion_bp_in_gene' # deletion_bp_in_gene =>
          /\ deletion_bp_in_gene' = TRUE
          /\ total_cn < 4
          /\ \E h \in checked_haps' :
                 /\ Cardinality(Transitions(h, "2", "1")) = 1
                 /\ Transitions(h, "1", "2") = {}
                 /\ Resolved(h)]_vars

\* C4 witness: a haplotype with one "21", no "12" and an 'x' was checked
\* alone with total_cn < 4 and the flag is not set.
C4_Witness ==
    /\ total_cn < 4
    /\ checked_haps = {hap_in}
    /\ Cardinality(Transitions(hap_in, "2", "1")) = 1
    /\ Transitions(hap_in, "1", "2") = {}
    /\ ~Resolved(hap_in)
    /\ deletion_bp_in_gene = FALSE

\* The case of C5: the last call assessed "1111112111" on a sample with
\* total_cn = 3 and at most 4 assembled haplotypes whose flanking depth
\* block is found under the loose threshold.
C5_Case ==
    /\ Called
    /\ LastRec.hap = Hap_1111112111
    /\ total_cn = 3
    /\ Len(full_haplotypes) <= 4
    /\ get_depth_for_blocks(var_index_in_haps[Hap_1111112111],
                            CN_likelihood_threshold_loose).found

\* C5 as stated: the record is a carrier record with names ["c.1263del"].
C5_Original ==
    C5_Case => /\ LastRec.is_carrier = TRUE
               /\ LastRec.variants = <<"c.1263del">>

\* C5 amended: the record is a carrier record with names ["D448H"], the
\* name of site 6, which carries the '2' of "1111112111".
C5_TrustedEndToEnd ==
    C5_Case => /\ LastRec.is_carrier = TRUE
               /\ LastRec.variants = <<"D448H">>

\* C5 witness: the case, with a likelihood that exceeds the loose threshold
\* only, in the first call for the sample.
C5_Witness ==
    /\ C5_Case
    /\ Len(variants_details) = 1
    /\ depth[<<6, 1>>] = CN_likelihood_threshold
    /\ LastRec.is_carrier = TRUE

\* C6: a haplotype with '2' at the sites 2, 3, 6 and 7 is named
\* ["c.1263del+RecTL"], whatever its other symbols.
C6_CompoundFourSites ==
    (/\ HasCall("get_variants_gba")
     /\ \A i \in {2, 3, 6, 7} : hap_in[i + 1] = "2")
    => variants_out = <<"c.1263del+RecTL">>

\* C6 witness: get_variants_gba returned for "xx22xx22xx".
C6_Witness ==
    /\ HasCall("get_variants_gba")
    /\ hap_in = Hap_xx22xx22xx

\* C7: a haplotype whose variant sites with '2' are exactly 2 and 3 is named
\* ["RecNciI"].
C7_RecNciI ==
    (/\ HasCall("get_variants_gba")
     /\ {i \in {2, 3, 6, 7} : hap_in[i + 1] = "2"} = {2, 3})
    => variants_out = <<"RecNciI">>

\* C7 witness: get_variants_gba returned for "2122111111", which also holds
\* a '2' outside the variant sites.
C7_Witness ==
    /\ HasCall("get_variants_gba")
    /\ hap_in = Hap_2122111111
    /\ variants_out = <<"RecNciI">>

\* C8: every assess_hap call calls get_depth_for_blocks exactly once, with
\* the variant-site indices of the haplotype, and with the loose threshold
\* exactly when the haplotype is trusted and at most 4 haplotypes are
\* assembled; with the standard threshold otherwise.
C8_ThresholdSelection ==
    Called =>
        LET h == LastRec.hap
            e == {k \in 1..Len(calls) : calls[k].op = "get_depth_for_blocks"}
        IN  /\ Cardinality(e) = 1
            /\ \A k \in e :
                   /\ calls[k].sites = var_index_in_haps[h]
                   /\ calls[k].param \in {CN_likelihood_threshold,
                                          CN_likelihood_threshold_loose}
                   /\ calls[k].param = CN_likelihood_threshold_loose
                      <=> (h \in trusted_hap_threshold
                           /\ Len(full_haplotypes) <= 4)

\* C8 witness: a trusted haplotype assessed with exactly 4 assembled
\* haplotypes.
C8_Witness ==
    /\ Called
    /\ LastRec.hap \in trusted_hap_threshold
    /\ Len(full_haplotypes) = 4
    /\ calls[1].param = CN_likelihood_threshold_loose

\* C9 as stated: scenario 2 sets is_carrier only when the assembled set
\* holds exactly one haplotype and is fully resolved.
C9_Original ==
    SetBy(2) => /\ Len(full_haplotypes) = 1
                /\ \A k \in 1..Len(full_haplotypes) :
                       Resolved(full_haplotypes[k])

\* C9 amended: scenario 2 sets is_carrier only when var_index_in_haps holds
\* exactly one haplotype and every assembled haplotype is fully resolved;
\* the assembled set itself may hold more than one haplotype.
C9_Scenario2Applicability ==
    SetBy(2) => /\ Cardinality(DOMAIN var_index_in_haps) = 1
                /\ \A k \in 1..Len(full_haplotypes) :
                       Resolved(full_haplotypes[k])

\* C9 witness: scenario 2 set the flag for a sample with several assembled
\* haplotypes.
C9_Witness ==
    /\ SetBy(2)
    /\ Len(full_haplotypes) > 1

\* C10 as stated: carrier_from_assembled_haps and get_depth_for_block are
\* never called while is_carrier is True.
C10_Original ==
    \A k \in 1..Len(calls) :
        calls[k].op \in {"carrier_from_assembled_haps", "get_depth_for_block"}
        => calls[k].carrier = FALSE

\* C10 amended: within a call the scenarios run in the order 1, 2, 3;
\* scenario 2 is evaluated only when scenario 1 of the same call found
\* nothing, and scenario 3 is entered only with is_carrier not True: the
\* first get_depth_for_block call of a call sees the flag False.
C10_ScenarioOrder ==
    Called =>
        /\ calls[1].op = "get_depth_for_blocks"
        /\ \A k, l \in 1..Len(calls) :
               k < l => ScenarioOf(calls[k]) <= ScenarioOf(calls[l])
        /\ HasCall("carrier_from_assembled_haps") => ~SetBy(1)
        /\ \A k \in 1..Len(calls) :
               (/\ calls[k].op = "get_depth_for_block"
                /\ \A j \in 1..(k - 1) : calls[j].op # "get_depth_for_block")
               => calls[k].carrier = FALSE

\* C10 witness: scenario 3 set the flag at the "12" switching point and
\* then called get_depth_for_block for the "21" switching point.
C10_Witness ==
    \E k \in 1..Len(calls) :
        /\ calls[k].op = "get_depth_for_block"
        /\ calls[k].carrier = TRUE


\* The depth block that a get_depth_for_block entry of the call log returned.
BlockOf(e) == get_depth_for_block(e.sites, e.param)

\* C11: a switch block without a likelihood does not set is_carrier and
\* raises nothing: the call completes, and its record holds the block.
C11_NullLikelihood ==
    /\ raised = FALSE
    /\ Called =>
           \A k \in 1..Len(calls) :
               (/\ calls[k].op = "get_depth_for_block"
                /\ BlockOf(calls[k]).likelihood = None)
               => /\ k < Len(calls) => calls[k + 1].op # "is_carrier"
                  /\ InList(LastRec.depth_blocks, BlockOf(calls[k]))

\* C11 witness: the first call fetched a switch block without a likelihood,
\* appended its record and left the sample a non-carrier.
C11_Witness ==
    /\ Len(variants_details) = 1
    /\ \E k \in 1..Len(calls) :
           /\ calls[k].op = "get_depth_for_block"
           /\ BlockOf(calls[k]).likelihood = None
    /\ is_carrier = FALSE
    /\ LastRec.is_carrier = FALSE


\* C12: every assess_hap call appends exactly one record, built from the
\* haplotype of the call, and leaves the earlier records as they were.
C12_OneRecordPerCall ==
    [][calls' # <<>> /\ calls'[1].op = "get_depth_for_blocks" =>
          /\ Len(variants_details') = Len(variants_details) + 1
          /\ SubSeq(variants_details', 1, Len(variants_details))
                 = variants_details
          /\ variants_details'[Len(variants_details')].hap = hap_in'
          /\ variants_details'[Len(variants_details')].variants
                 = variants_out']_vars

\* C12 witness: two calls for two haplotypes left two records in call order.
C12_Witness ==
    /\ Len(variants_details) = 2
    /\ variants_details[1].hap # variants_details[2].hap
    /\ variants_details[2].hap = hap_in

\* C13: the carrier value of the record of a call is the flag of the sample
\* when the record is appended, so the records after the first carrier
\* record are all carrier records.
C13_RecordCarrierSticky ==
    Called =>
        /\ LastRec.is_carrier = is_carrier
        /\ \A i, j \in 1..Len(variants_details) :
               (i < j /\ variants_details[i].is_carrier = TRUE)
               => variants_details[j].is_carrier = TRUE

\* C13 witness: the second call found nothing for its haplotype and still
\* appended a carrier record.
C13_Witness ==
    /\ Len(variants_details) = 2
    /\ variants_details[1].is_carrier = TRUE
    /\ variants_details[1].hap # variants_details[2].hap
    /\ ~HasCall("is_carrier")
    /\ variants_details[2].is_carrier = TRUE

\* The blocks that scenario 3 of the last call fetched.
SwitchBlocks ==
    {BlockOf(calls[k]) :
        k \in {j \in 1..Len(calls) : calls[j].op = "get_depth_for_block"}}

\* C14: scenario 3 adds each switch block once, and only when scenario 1
\* did not return an equal block; it sets is_carrier only for a block whose
\* likelihood is greater than the standard threshold.
C14_SwitchBlockCollection ==
    Called =>
        LET first == FlankBlocks(var_index_in_haps[LastRec.hap], 1)
            added == SwitchBlocks \ {first[k] : k \in 1..Len(first)}
        IN  /\ Len(LastRec.depth_blocks) = Len(first) + Cardinality(added)
            /\ SubSeq(LastRec.depth_blocks, 1, Len(first)) = first
            /\ \A b \in SwitchBlocks : InList(LastRec.depth_blocks, b)
            /\ \A k \in 1..Len(calls) :
                   (calls[k].op = "is_carrier" /\ calls[k].param = 3)
                   => /\ calls[k - 1].op = "get_depth_for_block"
                      /\ BlockOf(calls[k - 1]).likelihood
                             > CN_likelihood_threshold

\* C14 witness: for the trusted "1111112111" scenario 3 fetched the block
\* of the "21" switching point, which scenario 1 had returned, and a "12"
\* block whose likelihood exceeds the loose threshold only.
C14_Witness ==
    /\ Called
    /\ LastRec.hap = Hap_1111112111
    /\ Cardinality(SwitchBlocks) = 2
    /\ Len(LastRec.depth_blocks) = 2
    /\ depth[<<5, 0>>] = CN_likelihood_threshold
    /\ is_carrier = FALSE

\* The names of the variant sites of h that hold '2', in site order.
SiteNames(h) ==
    (IF h[3] = "2" THEN <<"A495P">> ELSE <<>>)
        \o (IF h[4] = "2" THEN <<"L483P">> ELSE <<>>)
        \o (IF h[7] = "2" THEN <<"D448H">> ELSE <<>>)
        \o (IF h[8] = "2" THEN <<"c.1263del">> ELSE <<>>)

\* C19: the names depend only on which of the sites 2, 3, 6 and 7 hold '2':
\* a compound name for {2,3}, {2,3,6} and {2,3,6,7}, and the names of the
\* sites in ascending order for every other subset.
C19_VariantNaming ==
    HasCall("get_variants_gba") =>
        LET sites == {i \in {2, 3, 6, 7} : hap_in[i + 1] = "2"} IN
        variants_out =
            IF sites = {2, 3} THEN <<"RecNciI">>
            ELSE IF sites = {2, 3, 6} THEN <<"RecTL">>
            ELSE IF sites = {2, 3, 6, 7} THEN <<"c.1263del+RecTL">>
            ELSE SiteNames(hap_in)

\* C19 witness: a haplotype with '2' at the sites 3, 6 and 7 and at two
\* other positions got the three names of its sites.
C19_Witness ==
    /\ HasCall("get_variants_gba")
    /\ hap_in = <<"2", "1", "1", "2", "1", "2", "2", "2", "x", "x">>
    /\ variants_out = <<"L483P", "D448H", "c.1263del">>


\* C20: check_deletion_bp_in_gene leaves is_carrier and variants_details
\* as they are, and assess_hap leaves deletion_bp_in_gene and total_cn as
\* they are: the deletion flag after a step is the one the check computes
\* if the step is a check, and the former one if it is an assess_hap call.
C20_Independence ==
    [][/\ calls' = <<>> =>
              /\ is_carrier' = is_carrier
              /\ variants_details' = variants_details
       /\ calls' # <<>> =>
              /\ deletion_bp_in_gene' = deletion_bp_in_gene
              /\ total_cn' = total_cn
              /\ Len(variants_details') = Len(variants_details) + 1
       /\ deletion_bp_in_gene' =
              IF calls' = <<>>
              THEN (deletion_bp_in_gene
                      \/ (total_cn < DeletionCn
                            /\ \E h \in checked_haps' :
                                   /\ Resolved(h)
                                   /\ Cardinality(Transitions(h, "2", "1"))
                                          = 1
                                   /\ Transitions(h, "1", "2") = {}))
              ELSE deletion_bp_in_gene]_vars

\* C20 witness: checks and assess_hap calls were interleaved, the last step
\* an assess_hap call; the flag of the check and the carrier flag are set.
C20_Witness ==
    /\ deletion_bp_in_gene = TRUE
    /\ checked_haps = OtherHaps
    /\ Len(variants_details) = 2
    /\ calls # <<>>
    /\ is_carrier = TRUE


\* ------------------------------------------------ assembly: notions

\* The string of length HapLen with the pattern a at the sites of the
\* window and 'x' at every other site.
Embedded(a, window) ==
    [i \in 1..HapLen |->
        IF \E k \in 1..Len(window) : window[k] = i - 1
        THEN a[CHOOSE k \in 1..Len(window) : window[k] = i - 1]
        ELSE "x"]

LastPrim == prim_calls[Len(prim_calls)]

\* The places in prim_calls of the calls of a pass.
CallsOf(pass) == {k \in 1..Len(prim_calls) : prim_calls[k].pass = pass}

LoopRounds(pass) ==
    {k \in CallsOf(pass) :
        prim_calls[k].in_loop /\ prim_calls[k].op = "group_haps"}

JoinCalls == {k \in 1..Len(prim_calls) : prim_calls[k].op = "join_subblocks"}

\* C15 as stated: the seeds of both passes hold the pattern at the window
\* and 'x' everywhere else.
C15_Original ==
    /\ pc = "left_5p" =>
           haplotypes_to_extend
               = {Embedded(a, left_window) : a \in LastPrim.returned}
    /\ pc = "right_3p" =>
           haplotypes_to_extend
               = {Embedded(a, right_window) : a \in LastPrim.returned}

\* C15: every seed is a string of length HapLen with the retained pattern at
\* the window; a left seed holds 'x' at every other site, a right seed
\* holds the last symbol of the pattern at site 8 and 'x' at every other
\* site.
C15_SeedEmbedding ==
    /\ pc = "left_5p" =>
           haplotypes_to_extend
               = {Embedded(a, left_window) : a \in LastPrim.returned}
    /\ pc = "right_3p" =>
           haplotypes_to_extend
               = {[Embedded(a, right_window) EXCEPT ![9] = a[2]] :
                     a \in LastPrim.returned}

\* C15 witness: the right pass built the seed of the pattern "12".
C15_Witness ==
    /\ pc = "right_3p"
    /\ <<"1", "2">> \in LastPrim.returned
    /\ <<"x", "x", "x", "x", "x", "x", "1", "2", "2", "x">>
           \in haplotypes_to_extend

\* The number of primitive calls of one run, at most.
MaxPrimCalls == 4 * RoundCap + 11

\* The number of steps the procedure has left, at most.
StepsLeft ==
    CASE pc = "left_seeds" -> 2 * RoundCap + 10
      [] pc = "left_5p" -> 2 * RoundCap + 9
      [] pc = "left_5p_again" -> 2 * RoundCap + 8
      [] pc = "left_loop" -> RoundCap + 7 + (RoundCap - n)
      [] pc = "left_end" -> RoundCap + 6
      [] pc = "right_seeds" -> RoundCap + 5
      [] pc = "right_3p" -> RoundCap + 4
      [] pc = "right_loop" -> 3 + (RoundCap - n)
      [] pc = "right_end" -> 2
      [] pc = "join" -> 1
      [] pc = "done" -> 0

\* C16: each loop makes at most RoundCap rounds and none on an empty
\* candidate list; the number of primitive calls is bounded, join_subblocks
\* is called once, as the last call; every step brings the end of the
\* procedure nearer, so it ends.
C16_RoundCapTermination ==
    /\ [](/\ n <= RoundCap
          /\ StepsLeft >= 0
          /\ Len(prim_calls) <= MaxPrimCalls
          /\ \A pass \in {"left", "right"} :
                 /\ Cardinality(LoopRounds(pass)) <= RoundCap
                 /\ \A k \in LoopRounds(pass) : prim_calls[k].given # {}
          /\ JoinCalls = IF pc = "done" THEN {Len(prim_calls)} ELSE {})
    /\ [][StepsLeft' < StepsLeft]_vars

\* C16 witness: the left loop made all its rounds, the right loop stopped
\* at its first round, and the procedure ended.
C16_Witness ==
    /\ pc = "done"
    /\ Cardinality(LoopRounds("left")) = RoundCap
    /\ LoopRounds("right") = {}
    /\ n = 1

\* A pass whose candidate list was empty at some point.
WentEmpty(pass) ==
    \E k \in CallsOf(pass) :
        prim_calls[k].op # "extract_hap" /\ prim_calls[k].returned = {}

\* C17: a pass whose candidate list became empty gives an empty partial
\* set; the other pass makes its calls all the same, and join_subblocks is
\* called with the two partial sets, empty or not.
C17_EmptyCandidatePolicy ==
    pc = "done" =>
        /\ WentEmpty("left") => hap_5p = {}
        /\ WentEmpty("right") => hap_3p = {}
        /\ \A pass \in {"left", "right"} :
               \A op \in {"extract_hap", "filter_hap", "group_haps"} :
                   \E k \in CallsOf(pass) : prim_calls[k].op = op
        /\ hap_3p = prim_calls[Len(prim_calls) - 1].returned
        /\ LastPrim = PrimCall("join_subblocks", hap_5p, hap_3p, "join",
                               FALSE)

\* C17 witness: the left pass found no seed, the right pass gave partial
\* haplotypes, and join_subblocks was called with the empty list.
C17_Witness ==
    /\ pc = "done"
    /\ WentEmpty("left")
    /\ hap_3p # {}
    /\ LastPrim.op = "join_subblocks"
    /\ LastPrim.given = {}

\* One more round of the pass that has just ended.
OneMoreRound ==
    IF pc = "left_end"
    THEN extend_hap_3p(group_haps(haplotype_per_read, haplotypes_to_extend))
    ELSE extend_hap_5p(group_haps(haplotype_per_read, haplotypes_to_extend))

\* C18 as stated: one more round gives the same candidate set.
C18_Original ==
    pc \in {"left_end", "right_end"} => OneMoreRound = haplotypes_to_extend

\* The site the round after the last round of a full loop extends at.
NextSite == IF pc = "left_end" THEN 8 ELSE 1

\* C18: one more round changes no resolved site of a candidate; it changes
\* the candidate set only after a loop of RoundCap rounds, and then only
\* by resolving site 8 (left pass) or site 1 (right pass).
C18_ExtensionConvergence ==
    pc \in {"left_end", "right_end"} =>
        /\ \A hap \in haplotypes_to_extend :
               \E more \in OneMoreRound :
                   \A i \in 0..(HapLen - 1) :
                       i # NextSite => At(more, i) = At(hap, i)
        /\ \A more \in OneMoreRound :
               \E hap \in haplotypes_to_extend :
                   \A i \in 0..(HapLen - 1) :
                       i # NextSite => At(more, i) = At(hap, i)
        /\ OneMoreRound # haplotypes_to_extend =>
               /\ n = RoundCap
               /\ \E hap \in haplotypes_to_extend :
                      /\ At(hap, NextSite) = "x"
                      /\ \E a \in {"1", "2"} :
                             [hap EXCEPT ![NextSite + 1] = a]
                                 \in OneMoreRound

\* C18 witness: after the four rounds of the left loop a candidate resolved
\* up to site 7 is extended to site 8 by one more round.
C18_Witness ==
    /\ pc = "left_end"
    /\ n = RoundCap
    /\ <<"1", "1", "1", "1", "1", "1", "1", "1", "x", "x">>
           \in haplotypes_to_extend
    /\ <<"1", "1", "1", "1", "1", "1", "1", "1", "1", "x">> \in OneMoreRound

====
